---- MODULE Spec2Model ----
(***************************************************************************)
(* GOMSGGW Client Manager (src/scripts/main.py): the interactive shell,    *)
(* its operations and the pure helpers they use.                           *)
(*                                                                         *)
(* A Python str is modelled as a sequence of one-character strings, so     *)
(* that strip, split, isdigit, int and re.sub are computed character by    *)
(* character as the interpreter computes them.                             *)
(***************************************************************************)
EXTENDS Integers, Sequences, FiniteSets, TLC

\* Optional[T]: None is the empty sequence, a value x is <<x>>.
None == <<>>
Some(x) == <<x>>

(***************************************************************************)
(* Characters.                                                             *)
(***************************************************************************)
\* The decimal digits: matched by \d, accepted by str.isdigit() and by int().
DecimalDigits == {"0", "1", "2", "3", "4", "5", "6", "7", "8", "9"}

\* U+00B2 SUPERSCRIPT TWO, one character: str.isdigit() is True for it (its
\* Unicode property Digit), \d does not match it and int() rejects it.
SUP2 == "sup2"

\* Characters str.strip() removes.
Whitespace == {" ", "\t", "\n"}

DigitValue(c) ==
    CASE c = "0" -> 0 [] c = "1" -> 1 [] c = "2" -> 2 [] c = "3" -> 3
      [] c = "4" -> 4 [] c = "5" -> 5 [] c = "6" -> 6 [] c = "7" -> 7
      [] c = "8" -> 8 [] c = "9" -> 9

(***************************************************************************)
(* str methods and builtins.                                               *)
(***************************************************************************)
RECURSIVE lstrip(_)
lstrip(s) ==
    IF s # <<>> /\ Head(s) \in Whitespace THEN lstrip(Tail(s)) ELSE s

RECURSIVE rstrip(_)
rstrip(s) ==
    IF s # <<>> /\ s[Len(s)] \in Whitespace
    THEN rstrip(SubSeq(s, 1, Len(s) - 1))
    ELSE s

\* str.strip()
strip(s) == rstrip(lstrip(s))

UpperCase ==
    << "A", "B", "C", "D", "E", "F", "G", "H", "I", "J", "K", "L", "M",
       "N", "O", "P", "Q", "R", "S", "T", "U", "V", "W", "X", "Y", "Z" >>

LowerCase ==
    << "a", "b", "c", "d", "e", "f", "g", "h", "i", "j", "k", "l", "m",
       "n", "o", "p", "q", "r", "s", "t", "u", "v", "w", "x", "y", "z" >>

lower_char(c) ==
    IF \E k \in 1..Len(UpperCase) : UpperCase[k] = c
    THEN LowerCase[CHOOSE k \in 1..Len(UpperCase) : UpperCase[k] = c]
    ELSE c

\* str.lower()
lower(s) == [i \in 1..Len(s) |-> lower_char(s[i])]

\* t in s, for strings
contains(s, t) ==
    \E i \in 0..(Len(s) - Len(t)) : SubSeq(s, i + 1, i + Len(t)) = t

\* str.isdigit(): non-empty and every character has the Digit property
isdigit(s) ==
    /\ s # <<>>
    /\ \A i \in 1..Len(s) : s[i] \in DecimalDigits \cup {SUP2}

\* Whether int(s) returns (TRUE) or raises ValueError (FALSE): optional
\* whitespace around an optional sign and at least one decimal digit.
int_parses(s) ==
    LET t == strip(s)
        u == IF t # <<>> /\ Head(t) \in {"+", "-"} THEN Tail(t) ELSE t
    IN  /\ u # <<>>
        /\ \A i \in 1..Len(u) : u[i] \in DecimalDigits

RECURSIVE digits_value(_)
digits_value(u) ==
    IF u = <<>> THEN 0
    ELSE 10 * digits_value(SubSeq(u, 1, Len(u) - 1)) + DigitValue(u[Len(u)])

\* int(s), where int_parses(s)
int(s) ==
    LET t == strip(s)
    IN  IF t # <<>> /\ Head(t) = "-" THEN 0 - digits_value(Tail(t))
        ELSE IF t # <<>> /\ Head(t) = "+" THEN digits_value(Tail(t))
        ELSE digits_value(t)

\* raw.replace("\n", ",")
replace_newlines(s) ==
    [i \in 1..Len(s) |-> IF s[i] = "\n" THEN "," ELSE s[i]]

\* str.split(","): the fields between the commas, empty fields included
RECURSIVE split_commas(_, _)
split_commas(s, cur) ==
    IF s = <<>> THEN <<cur>>
    ELSE IF Head(s) = "," THEN <<cur>> \o split_commas(Tail(s), <<>>)
    ELSE split_commas(Tail(s), Append(cur, Head(s)))

(***************************************************************************)
(* Number operations.                                                      *)
(***************************************************************************)
\* re.sub(r"[^\d]", "", num)
normalize_number(num) == SelectSeq(num, LAMBDA c : c \in DecimalDigits)

\* parts = [p.strip() for p in raw.replace("\n", ",").split(",") if p.strip()]
csv_parts(raw) ==
    LET fields == split_commas(replace_newlines(raw), <<>>)
        stripped == [i \in 1..Len(fields) |-> strip(fields[i])]
    IN  SelectSeq(stripped, LAMBDA p : p # <<>>)

\* accepts_number with the upper bound of the length test lost
accepts_number_unbounded(normalized) == Len(normalized) >= 10

\* The classification of one fragment: its normalized form when accepted.
accepts_number(normalized) == Len(normalized) >= 10 /\ Len(normalized) <= 11

coerce_number(normalized) ==
    IF Len(normalized) = 10 THEN <<"1">> \o normalized ELSE normalized

\* parse_loop dropping a number the batch already holds
RECURSIVE parse_loop_dedup(_, _, _)
parse_loop_dedup(parts, valid, invalid) ==
    IF parts = <<>> THEN [valid |-> valid, invalid |-> invalid]
    ELSE LET p == Head(parts)
             normalized == normalize_number(p)
         IN  IF accepts_number(normalized)
             THEN IF \E k \in 1..Len(valid) : valid[k] = coerce_number(normalized)
                  THEN parse_loop_dedup(Tail(parts), valid, invalid)
                  ELSE parse_loop_dedup(Tail(parts),
                           Append(valid, coerce_number(normalized)), invalid)
             ELSE parse_loop_dedup(Tail(parts), valid, Append(invalid, p))

RECURSIVE parse_loop(_, _, _)
parse_loop(parts, valid, invalid) ==
    IF parts = <<>> THEN [valid |-> valid, invalid |-> invalid]
    ELSE LET p == Head(parts)
             normalized == normalize_number(p)
         IN  IF accepts_number(normalized)
             THEN parse_loop(Tail(parts), Append(valid, coerce_number(normalized)), invalid)
             ELSE parse_loop(Tail(parts), valid, Append(invalid, p))

\* parse_numbers_csv(raw): the list returned (valid) and the list reported
\* to the operator (invalid).
parse_numbers_csv(raw) == parse_loop(csv_parts(raw), <<>>, <<>>)

(***************************************************************************)
(* Transport.  A response is [fault, status, body]: fault is a             *)
(* requests.RequestException raised by the call (status 0, empty body);    *)
(* otherwise status is resp.status_code and body what resp.json() gives.   *)
(* A request the tool sent is logged with the way the code took it (ok).   *)
(***************************************************************************)
Fault == [fault |-> TRUE, status |-> 0, body |-> <<>>]

Http(status, body) == [fault |-> FALSE, status |-> status, body |-> body]

Request(method, path, cid, body, resp, ok) ==
    [method |-> method, path |-> path, cid |-> cid, body |-> body,
     fault |-> resp.fault, status |-> resp.status, text |-> resp.body, ok |-> ok]

\* `if resp.status_code != 200:` is the failure branch of the three reads
read_succeeded(resp) == resp.status = 200

\* `if 200 <= resp.status_code < 300:` is the success branch of the writes
write_succeeded(resp) == 200 <= resp.status /\ resp.status < 300

\* What an operation did: the requests it sent, the messages it printed (in order), its
\* return value, whether an exception left it, and the locals the claims
\* are about.
Outcome(log, msgs, ret) ==
    [log |-> log, msgs |-> msgs, ret |-> ret, raised |-> FALSE,
     clients |-> None, client |-> None, tally |-> None, settings |-> None]

Min(S) == CHOOSE x \in S : \A y \in S : x <= y

(***************************************************************************)
(* Carrier operations.                                                     *)
(***************************************************************************)
list_carriers(resp) ==
    IF resp.fault
    THEN Outcome(<<Request("GET", "/carriers", 0, <<>>, resp, FALSE)>>,
                 <<"Network error">>, None)
    ELSE IF ~read_succeeded(resp)
    THEN Outcome(<<Request("GET", "/carriers", 0, <<>>, resp, FALSE)>>,
                 <<"Failed to list carriers">>, None)
    ELSE Outcome(<<Request("GET", "/carriers", 0, <<>>, resp, TRUE)>>,
                 IF resp.body = <<>> THEN <<"No carriers found.">> ELSE <<"Total carriers">>,
                 Some(resp.body))

\* carrier_types.get(type_choice, "telnyx")
carrier_type_of(type_choice) ==
    CASE type_choice = <<"2">> -> "twilio"
      [] type_choice = <<"3">> -> "bandwidth"
      [] type_choice = <<"4">> -> "plivo"
      [] OTHER -> "telnyx"

\* int(x) if x else default, except ValueError: default
int_or_default(text, default) ==
    IF text = <<>> THEN default
    ELSE IF int_parses(text) THEN int(text)
    ELSE default

create_carrier_interactive(name_in, type_in, sms_in, mms_in, resp) ==
    LET name == strip(name_in)
        payload == [name |-> name,
                    type |-> carrier_type_of(strip(type_in)),
                    sms_limit |-> int_or_default(strip(sms_in), 600000),
                    mms_limit |-> int_or_default(strip(mms_in), 1048576)]
    IN  IF name = <<>>
        THEN Outcome(<<>>, <<"Name is required.">>, None)
        ELSE IF resp.fault
        THEN Outcome(<<Request("POST", "/carriers", 0, payload, resp, FALSE)>>,
                     <<"Network error">>, None)
        ELSE IF write_succeeded(resp)
        THEN Outcome(<<Request("POST", "/carriers", 0, payload, resp, TRUE)>>,
                     <<"Carrier created">>, Some(name))
        ELSE Outcome(<<Request("POST", "/carriers", 0, payload, resp, FALSE)>>,
                     <<"Failed to create carrier">>, None)

(***************************************************************************)
(* Client operations.  A client is [id, username, numbers].                *)
(***************************************************************************)
list_clients(resp) ==
    IF resp.fault
    THEN Outcome(<<Request("GET", "/clients", 0, <<>>, resp, FALSE)>>,
                 <<"Network error">>, None)
    ELSE IF ~read_succeeded(resp)
    THEN Outcome(<<Request("GET", "/clients", 0, <<>>, resp, FALSE)>>,
                 <<"Failed to list clients">>, None)
    ELSE Outcome(<<Request("GET", "/clients", 0, <<>>, resp, TRUE)>>,
                 IF resp.body = <<>> THEN <<"No clients found.">> ELSE <<"Total clients">>,
                 Some(resp.body))

\* The two scans of get_client_by_identifier over the decoded list: the
\* Optional client returned, or "ValueError" where int(identifier) raises.
scan_clients(clients, identifier) ==
    LET by_id == {i \in 1..Len(clients) : clients[i].id = int(identifier)}
        by_username == {i \in 1..Len(clients) : clients[i].username = identifier}
    IN  IF isdigit(identifier) /\ clients # <<>> /\ ~int_parses(identifier)
        THEN [raised |-> TRUE, client |-> None]
        ELSE IF isdigit(identifier) /\ clients # <<>> /\ by_id # {}
        THEN [raised |-> FALSE, client |-> Some(clients[Min(by_id)])]
        ELSE IF by_username # {}
        THEN [raised |-> FALSE, client |-> Some(clients[Min(by_username)])]
        ELSE [raised |-> FALSE, client |-> None]

get_client_by_identifier(resp, identifier) ==
    IF resp.fault
    THEN [Outcome(<<Request("GET", "/clients", 0, <<>>, resp, FALSE)>>,
                  <<"Network error">>, None) EXCEPT !.client = None]
    ELSE IF ~read_succeeded(resp)
    THEN Outcome(<<Request("GET", "/clients", 0, <<>>, resp, FALSE)>>, <<>>, None)
    ELSE LET found == scan_clients(resp.body, identifier)
         IN  [Outcome(<<Request("GET", "/clients", 0, <<>>, resp, TRUE)>>, <<>>, None)
                EXCEPT !.clients = Some(resp.body),
                       !.client = found.client,
                       !.raised = found.raised]

\* get_client matching on the username alone, without the id scan
get_client_username_only(resp, username) ==
    IF resp.fault
    THEN Outcome(<<Request("GET", "/clients", 0, <<>>, resp, FALSE)>>,
                 <<"Network error">>, None)
    ELSE IF ~read_succeeded(resp)
    THEN Outcome(<<Request("GET", "/clients", 0, <<>>, resp, FALSE)>>, <<>>, None)
    ELSE LET by_username == {i \in 1..Len(resp.body) : resp.body[i].username = username}
         IN  [Outcome(<<Request("GET", "/clients", 0, <<>>, resp, TRUE)>>, <<>>, None)
                EXCEPT !.clients = Some(resp.body),
                       !.client = IF by_username # {}
                                  THEN Some(resp.body[Min(by_username)])
                                  ELSE None]

\* get_client(username): "legacy", delegates
get_client(resp, username) == get_client_by_identifier(resp, username)

show_client_details(resp, identifier) ==
    LET got == get_client_by_identifier(resp, identifier)
    IN  IF got.raised THEN got
        ELSE IF got.client = None
        THEN [got EXCEPT !.msgs = Append(@, "Client not found.")]
        ELSE [got EXCEPT !.msgs = Append(@, "Client details")]

DigitChar(d) == CHOOSE c \in DecimalDigits : DigitValue(c) = d

\* str(n) of an int n >= 0
RECURSIVE str_int(_)
str_int(n) ==
    IF n < 10 THEN <<DigitChar(n)>>
    ELSE str_int(n \div 10) \o <<DigitChar(n % 10)>>

\* str(data.get("id", "?")): the body of a 2xx answer to POST /clients is
\* Some(id), or None where the object has no "id"
created_id(body) == IF body = None THEN <<"?">> ELSE str_int(body[1])

\* create_client_interactive without the legacy address check
create_client_unchecked_address(username_in, password_in, type_in, address_in, limit_in, resp) ==
    LET username == strip(username_in)
        client_type == IF strip(type_in) = <<"2">> THEN "web" ELSE "legacy"
        address == strip(address_in)
        payload == [username |-> username,
                    type |-> client_type,
                    sms_limit |-> int_or_default(strip(limit_in), 0),
                    address |-> IF address # <<>> THEN Some(address) ELSE None]
    IN  IF username = <<>>
        THEN Outcome(<<>>, <<"Username is required.">>, None)
        ELSE IF resp.fault
        THEN Outcome(<<Request("POST", "/clients", 0, payload, resp, FALSE)>>,
                     <<"Network error creating client">>, None)
        ELSE IF write_succeeded(resp)
        THEN Outcome(<<Request("POST", "/clients", 0, payload, resp, TRUE)>>,
                     <<"Client created">>, Some(created_id(resp.body)))
        ELSE Outcome(<<Request("POST", "/clients", 0, payload, resp, FALSE)>>,
                     <<"Failed to create client">>, None)

create_client_interactive(username_in, password_in, type_in, address_in, limit_in, resp) ==
    LET username == strip(username_in)
        generated == strip(password_in) = <<>>
        client_type == IF strip(type_in) = <<"2">> THEN "web" ELSE "legacy"
        address == strip(address_in)
        payload == [username |-> username,
                    type |-> client_type,
                    sms_limit |-> int_or_default(strip(limit_in), 0),
                    address |-> IF address # <<>> THEN Some(address) ELSE None]
        shown == IF generated THEN <<"Generated password">> ELSE <<>>
    IN  IF username = <<>>
        THEN Outcome(<<>>, <<"Username is required.">>, None)
        ELSE IF client_type = "legacy" /\ address = <<>>
        THEN Outcome(<<>>, shown \o <<"Address is required for legacy clients">>, None)
        ELSE IF resp.fault
        THEN Outcome(<<Request("POST", "/clients", 0, payload, resp, FALSE)>>,
                     shown \o <<"Network error creating client">>, None)
        ELSE IF write_succeeded(resp)
        THEN Outcome(<<Request("POST", "/clients", 0, payload, resp, TRUE)>>,
                     shown \o <<"Client created">>, Some(created_id(resp.body)))
        ELSE Outcome(<<Request("POST", "/clients", 0, payload, resp, FALSE)>>,
                     shown \o <<"Failed to create client">>, None)

\* formats = {"1": "generic", "2": "bicom", "3": "telnyx"}
formats(choice) ==
    CASE choice = <<"1">> -> Some("generic")
      [] choice = <<"2">> -> Some("bicom")
      [] choice = <<"3">> -> Some("telnyx")
      [] OTHER -> None

\* settings[key] = int(text) under `if text:` and `except ValueError: pass`
optional_int(text) ==
    IF text # <<>> /\ int_parses(text) THEN Some(int(text)) ELSE None

\* The settings dict: a key is present where its field is not None.
build_settings(format_in, webhook_in, retries_in, timeout_in) ==
    [api_format |-> formats(strip(format_in)),
     default_webhook |-> IF strip(webhook_in) # <<>> THEN Some(strip(webhook_in)) ELSE None,
     webhook_retries |-> optional_int(strip(retries_in)),
     webhook_timeout_secs |-> optional_int(strip(timeout_in))]

\* `if not settings:` never taken
settings_never_empty(settings) == FALSE

\* `not settings`
settings_empty(settings) ==
    /\ settings.api_format = None
    /\ settings.default_webhook = None
    /\ settings.webhook_retries = None
    /\ settings.webhook_timeout_secs = None

update_client_settings(lookup, identifier, format_in, webhook_in, retries_in, timeout_in, resp) ==
    LET got == get_client_by_identifier(lookup, identifier)
        settings == build_settings(format_in, webhook_in, retries_in, timeout_in)
        client_id == got.client[1].id
        put(ok) == Request("PUT", "/clients/{id}/settings", client_id, settings, resp, ok)
        asked == [got EXCEPT !.settings = Some(settings)]
    IN  IF got.raised THEN got
        ELSE IF got.client = None
        THEN [got EXCEPT !.msgs = Append(@, "Client not found.")]
        ELSE IF settings_empty(settings)
        THEN [asked EXCEPT !.msgs = Append(@, "No settings to update.")]
        ELSE IF resp.fault
        THEN [asked EXCEPT !.log = Append(@, put(FALSE)),
                           !.msgs = Append(@, "Network error")]
        ELSE IF write_succeeded(resp)
        THEN [asked EXCEPT !.log = Append(@, put(TRUE)),
                           !.msgs = Append(@, "Settings updated.")]
        ELSE [asked EXCEPT !.log = Append(@, put(FALSE)),
                           !.msgs = Append(@, "Failed")]

\* change_client_password cancelling on the answer "n" alone
change_client_password_unless_n(lookup, identifier, password_in, confirm_in, resp) ==
    LET got == get_client_by_identifier(lookup, identifier)
        generated == strip(password_in) = <<>>
        confirm == lower(strip(confirm_in))
        client_id == got.client[1].id
        patch(ok) == Request("PATCH", "/clients/{id}/password", client_id,
                             [generated |-> generated], resp, ok)
        shown == [got EXCEPT !.msgs = IF generated THEN Append(@, "Generated password") ELSE @]
    IN  IF got.raised THEN got
        ELSE IF got.client = None
        THEN [got EXCEPT !.msgs = Append(@, "Client not found.")]
        ELSE IF confirm = <<"n">>
        THEN [shown EXCEPT !.msgs = Append(@, "Cancelled.")]
        ELSE IF resp.fault
        THEN [shown EXCEPT !.log = Append(@, patch(FALSE)),
                           !.msgs = Append(@, "Network error")]
        ELSE IF write_succeeded(resp)
        THEN [shown EXCEPT !.log = Append(@, patch(TRUE)),
                           !.msgs = Append(@, "Password updated successfully.")]
        ELSE [shown EXCEPT !.log = Append(@, patch(FALSE)),
                           !.msgs = Append(@, "Failed")]

change_client_password(lookup, identifier, password_in, confirm_in, resp) ==
    LET got == get_client_by_identifier(lookup, identifier)
        generated == strip(password_in) = <<>>
        confirm == lower(strip(confirm_in))
        client_id == got.client[1].id
        patch(ok) == Request("PATCH", "/clients/{id}/password", client_id,
                             [generated |-> generated], resp, ok)
        shown == [got EXCEPT !.msgs = IF generated THEN Append(@, "Generated password") ELSE @]
    IN  IF got.raised THEN got
        ELSE IF got.client = None
        THEN [got EXCEPT !.msgs = Append(@, "Client not found.")]
        ELSE IF confirm # <<"y">>
        THEN [shown EXCEPT !.msgs = Append(@, "Cancelled.")]
        ELSE IF resp.fault
        THEN [shown EXCEPT !.log = Append(@, patch(FALSE)),
                           !.msgs = Append(@, "Network error")]
        ELSE IF write_succeeded(resp)
        THEN [shown EXCEPT !.log = Append(@, patch(TRUE)),
                           !.msgs = Append(@, "Password updated successfully.")]
        ELSE [shown EXCEPT !.log = Append(@, patch(FALSE)),
                           !.msgs = Append(@, "Failed")]

(***************************************************************************)
(* Adding and listing numbers.                                             *)
(***************************************************************************)
AlreadyExistsText ==
    << "a", "l", "r", "e", "a", "d", "y", " ", "e", "x", "i", "s", "t", "s" >>

\* `num in existing`
in_list(num, existing) == \E k \in 1..Len(existing) : existing[k] = num

\* says_already_exists without `.lower()`
says_already_exists_exact_case(err) == contains(err, AlreadyExistsText)

\* `"already exists" in str(err).lower()`, err being the answer's error text
says_already_exists(err) == contains(lower(err), AlreadyExistsText)

\* add_loop without `existing.append(num)` after a 2xx
RECURSIVE add_loop_untracked(_, _, _, _, _, _)
add_loop_untracked(numbers, i, client_id, carrier, resps, acc) ==
    IF i > Len(numbers) THEN acc
    ELSE LET num == numbers[i]
             resp == resps[i]
             post(ok) == Request("POST", "/clients/{id}/numbers", client_id,
                                 [number |-> num, carrier |-> carrier], resp, ok)
         IN  IF in_list(num, acc.existing)
             THEN add_loop_untracked(numbers, i + 1, client_id, carrier, resps,
                     [acc EXCEPT !.skipped = @ + 1,
                                 !.msgs = Append(@, "already exists, skipping")])
             ELSE IF resp.fault
             THEN add_loop_untracked(numbers, i + 1, client_id, carrier, resps,
                     [acc EXCEPT !.failed = @ + 1,
                                 !.log = Append(@, post(FALSE)),
                                 !.msgs = Append(@, "network error")])
             ELSE IF write_succeeded(resp)
             THEN add_loop_untracked(numbers, i + 1, client_id, carrier, resps,
                     [acc EXCEPT !.added = @ + 1,
                                 !.log = Append(@, post(TRUE)),
                                 !.msgs = Append(@, "added")])
             ELSE IF says_already_exists(resp.body)
             THEN add_loop_untracked(numbers, i + 1, client_id, carrier, resps,
                     [acc EXCEPT !.skipped = @ + 1,
                                 !.log = Append(@, post(FALSE)),
                                 !.msgs = Append(@, "already exists")])
             ELSE add_loop_untracked(numbers, i + 1, client_id, carrier, resps,
                     [acc EXCEPT !.failed = @ + 1,
                                 !.log = Append(@, post(FALSE)),
                                 !.msgs = Append(@, "failed")])

\* The `for num in numbers:` loop from candidate i on; resps[i] is the answer
\* the gateway gives to candidate i's POST if that POST is sent.
RECURSIVE add_loop(_, _, _, _, _, _)
add_loop(numbers, i, client_id, carrier, resps, acc) ==
    IF i > Len(numbers) THEN acc
    ELSE LET num == numbers[i]
             resp == resps[i]
             post(ok) == Request("POST", "/clients/{id}/numbers", client_id,
                                 [number |-> num, carrier |-> carrier], resp, ok)
         IN  IF in_list(num, acc.existing)
             THEN add_loop(numbers, i + 1, client_id, carrier, resps,
                     [acc EXCEPT !.skipped = @ + 1,
                                 !.msgs = Append(@, "already exists, skipping")])
             ELSE IF resp.fault
             THEN add_loop(numbers, i + 1, client_id, carrier, resps,
                     [acc EXCEPT !.failed = @ + 1,
                                 !.log = Append(@, post(FALSE)),
                                 !.msgs = Append(@, "network error")])
             ELSE IF write_succeeded(resp)
             THEN add_loop(numbers, i + 1, client_id, carrier, resps,
                     [acc EXCEPT !.added = @ + 1,
                                 !.existing = Append(@, num),
                                 !.log = Append(@, post(TRUE)),
                                 !.msgs = Append(@, "added")])
             ELSE IF says_already_exists(resp.body)
             THEN add_loop(numbers, i + 1, client_id, carrier, resps,
                     [acc EXCEPT !.skipped = @ + 1,
                                 !.log = Append(@, post(FALSE)),
                                 !.msgs = Append(@, "already exists")])
             ELSE add_loop(numbers, i + 1, client_id, carrier, resps,
                     [acc EXCEPT !.failed = @ + 1,
                                 !.log = Append(@, post(FALSE)),
                                 !.msgs = Append(@, "failed")])

add_numbers_to_client(lookup, identifier, numbers, carrier, skip_existing, resps) ==
    LET got == get_client_by_identifier(lookup, identifier)
        client == got.client[1]
        existing == IF skip_existing THEN client.numbers ELSE <<>>
        done == add_loop(numbers, 1, client.id, carrier, resps,
                    [existing |-> existing, added |-> 0, skipped |-> 0, failed |-> 0,
                     log |-> got.log, msgs |-> got.msgs])
    IN  IF got.raised THEN got
        ELSE IF got.client = None
        THEN [got EXCEPT !.msgs = Append(@, "Client not found.")]
        ELSE [got EXCEPT !.log = done.log,
                         !.msgs = Append(done.msgs, "Done"),
                         !.tally = Some([added |-> done.added,
                                         skipped |-> done.skipped,
                                         failed |-> done.failed])]

list_client_numbers(resp, username) ==
    LET got == get_client(resp, username)
    IN  IF got.raised THEN got
        ELSE IF got.client = None
        THEN [got EXCEPT !.msgs = Append(@, "Client not found.")]
        ELSE IF got.client[1].numbers = <<>>
        THEN [got EXCEPT !.msgs = Append(@, "No numbers configured.")]
        ELSE [got EXCEPT !.msgs = Append(@, "Numbers table")]

(***************************************************************************)
(* Reload.                                                                 *)
(***************************************************************************)
\* One try block of reload_all: the request and the line printed for it.
reload_step(path, resp, done_msg, failed_msg) ==
    IF resp.fault
    THEN [req |-> Request("POST", path, 0, <<>>, resp, FALSE), msg |-> "Network error"]
    ELSE IF write_succeeded(resp)
    THEN [req |-> Request("POST", path, 0, <<>>, resp, TRUE), msg |-> done_msg]
    ELSE [req |-> Request("POST", path, 0, <<>>, resp, FALSE), msg |-> failed_msg]

\* reload_all returning after a first request that did not succeed
reload_all_aborting(resp1, resp2) ==
    LET first == reload_step("/clients/reload", resp1,
                             "Clients reloaded.", "Client reload failed")
        second == reload_step("/carriers/reload", resp2,
                              "Carriers reloaded.", "Carrier reload failed")
    IN  IF first.req.ok
        THEN Outcome(<<first.req, second.req>>, <<first.msg, second.msg>>, None)
        ELSE Outcome(<<first.req>>, <<first.msg>>, None)

reload_all(resp1, resp2) ==
    LET first == reload_step("/clients/reload", resp1,
                             "Clients reloaded.", "Client reload failed")
        second == reload_step("/carriers/reload", resp2,
                              "Carriers reloaded.", "Carrier reload failed")
    IN  Outcome(<<first.req, second.req>>, <<first.msg, second.msg>>, None)

(***************************************************************************)
(* The interactive shell: menu().                                          *)
(*                                                                         *)
(* pc is the shell's position: "menu" at the top of the while loop, the    *)
(* steps of options 9 and q in between, "ran" at the end of an iteration,  *)
(* "exited" after option 0 and "crashed" when an exception other than      *)
(* KeyboardInterrupt leaves menu() (main() catches nothing else).          *)
(* The other variables are menu()'s locals and, for the operation that     *)
(* ran last, its prompt answers and its Outcome.                           *)
(***************************************************************************)
VARIABLES pc, last_client, choice, identifier, answers,
          log, msgs, ret, clients, client, tally, settings,
          raw, nums, invalid

vars == << pc, last_client, choice, identifier, answers,
           log, msgs, ret, clients, client, tally, settings,
           raw, nums, invalid >>

Telnyx == << "t", "e", "l", "n", "y", "x" >>

\* `input(...).strip() or last_client`
or_last(text, last) == IF strip(text) # <<>> THEN Some(strip(text)) ELSE last

\* `if identifier:` on an Optional[str]
truthy(opt) == opt # None /\ opt[1] # <<>>

Install(o) ==
    /\ log' = o.log
    /\ msgs' = o.msgs
    /\ ret' = o.ret
    /\ clients' = o.clients
    /\ client' = o.client
    /\ tally' = o.tally
    /\ settings' = o.settings

\* One operation ran for selection ch: the shell goes to position next, or
\* dies where the operation raised.
Ran(ch, ident, ans, o, next) ==
    /\ choice' = ch
    /\ identifier' = ident
    /\ answers' = ans
    /\ Install(o)
    /\ pc' = IF o.raised THEN "crashed" ELSE next

Init ==
    /\ pc = "menu"
    /\ last_client = None
    /\ choice = ""
    /\ identifier = None
    /\ answers = <<>>
    /\ log = <<>>
    /\ msgs = <<>>
    /\ ret = None
    /\ clients = None
    /\ client = None
    /\ tally = None
    /\ settings = None
    /\ raw = None
    /\ nums = <<>>
    /\ invalid = <<>>

\* choice == "1"
Choice1(CarrierResps) ==
    /\ pc = "menu"
    /\ \E resp \in CarrierResps :
          Ran("1", None, <<>>, list_carriers(resp), "ran")
    /\ UNCHANGED << last_client, raw, nums, invalid >>

\* choice == "2"
Choice2(Names, Types, Limits, Resps) ==
    /\ pc = "menu"
    /\ \E name_in \in Names, type_in \in Types, sms_in \in Limits, mms_in \in Limits,
          resp \in Resps :
          Ran("2", None, <<name_in, type_in, sms_in, mms_in>>,
              create_carrier_interactive(name_in, type_in, sms_in, mms_in, resp), "ran")
    /\ UNCHANGED << last_client, raw, nums, invalid >>

\* choice == "3"
Choice3(ClientResps) ==
    /\ pc = "menu"
    /\ \E resp \in ClientResps :
          Ran("3", None, <<>>, list_clients(resp), "ran")
    /\ UNCHANGED << last_client, raw, nums, invalid >>

\* choice == "4"
Choice4(Idents, ClientResps) ==
    /\ pc = "menu"
    /\ \E ans \in Idents :
          LET username == or_last(ans, last_client)
          IN  IF truthy(username)
              THEN \E resp \in ClientResps :
                      Ran("4", username, <<ans>>,
                          show_client_details(resp, username[1]), "ran")
              ELSE Ran("4", username, <<ans>>,
                       Outcome(<<>>, <<"Username required.">>, None), "ran")
    /\ UNCHANGED << last_client, raw, nums, invalid >>

\* choice == "5": `if created: last_client = created`
Choice5(Names, Passwords, Types, Addresses, Limits, Resps) ==
    /\ pc = "menu"
    /\ \E username_in \in Names, password_in \in Passwords, type_in \in Types,
          address_in \in Addresses, limit_in \in Limits, resp \in Resps :
          LET o == create_client_interactive(username_in, password_in, type_in,
                                             address_in, limit_in, resp)
          IN  /\ Ran("5", o.ret,
                     <<username_in, password_in, type_in, address_in, limit_in>>,
                     o, "ran")
              /\ last_client' = IF truthy(o.ret) THEN o.ret ELSE last_client
    /\ UNCHANGED << raw, nums, invalid >>

\* choice == "6"
Choice6(Idents, ClientResps, Formats, Webhooks, Ints, Resps) ==
    /\ pc = "menu"
    /\ \E ans \in Idents :
          LET ident == or_last(ans, last_client)
          IN  IF truthy(ident)
              THEN \E lookup \in ClientResps, format_in \in Formats,
                      webhook_in \in Webhooks, retries_in \in Ints,
                      timeout_in \in Ints, resp \in Resps :
                      Ran("6", ident,
                          <<ans, format_in, webhook_in, retries_in, timeout_in>>,
                          update_client_settings(lookup, ident[1], format_in,
                              webhook_in, retries_in, timeout_in, resp), "ran")
              ELSE Ran("6", ident, <<ans>>,
                       Outcome(<<>>, <<"Client ID or username required.">>, None), "ran")
    /\ UNCHANGED << last_client, raw, nums, invalid >>

\* choice == "7"
Choice7(Idents, ClientResps, Passwords, Confirms, Resps) ==
    /\ pc = "menu"
    /\ \E ans \in Idents :
          LET ident == or_last(ans, last_client)
          IN  IF truthy(ident)
              THEN \E lookup \in ClientResps, password_in \in Passwords,
                      confirm_in \in Confirms, resp \in Resps :
                      Ran("7", ident, <<ans, password_in, confirm_in>>,
                          change_client_password(lookup, ident[1], password_in,
                              confirm_in, resp), "ran")
              ELSE Ran("7", ident, <<ans>>,
                       Outcome(<<>>, <<"Client ID or username required.">>, None), "ran")
    /\ UNCHANGED << last_client, raw, nums, invalid >>

\* choice == "8"
Choice8(Idents, ClientResps) ==
    /\ pc = "menu"
    /\ \E ans \in Idents :
          LET ident == or_last(ans, last_client)
          IN  IF truthy(ident)
              THEN \E resp \in ClientResps :
                      Ran("8", ident, <<ans>>,
                          list_client_numbers(resp, ident[1]), "ran")
              ELSE Ran("8", ident, <<ans>>,
                       Outcome(<<>>, <<"Client ID or username required.">>, None), "ran")
    /\ UNCHANGED << last_client, raw, nums, invalid >>

\* `carrier = input(...).strip() or "telnyx"`
carrier_or_default(carrier_in) ==
    IF strip(carrier_in) # <<>> THEN strip(carrier_in) ELSE Telnyx

\* ",".join(lines) of the lines read until EOF: typed is what the operator
\* typed, its lines ended by "\n"
join_lines(typed) == [i \in 1..Len(typed) |-> IF typed[i] = "\n" THEN "," ELSE typed[i]]

\* What parse_numbers_csv prints
invalid_report(parsed) ==
    IF parsed.invalid # <<>> THEN <<"These entries are invalid">> ELSE <<>>

\* choice == "9", up to the list of carriers
Choice9(Idents, CarrierResps) ==
    /\ pc = "menu"
    /\ \E ans \in Idents :
          LET ident == or_last(ans, last_client)
          IN  IF truthy(ident)
              THEN \E resp \in CarrierResps :
                      Ran("9", ident, <<ans>>, list_carriers(resp), "opt9_listed")
              ELSE Ran("9", ident, <<ans>>,
                       Outcome(<<>>, <<"Client ID or username required.">>, None), "ran")
    /\ UNCHANGED << last_client, raw, nums, invalid >>

\* choice == "9", from the carrier prompt on: `last_client = identifier`
\* follows add_numbers_to_client whatever it did
Choice9Add(Carriers, Typed, ClientResps, PostResps) ==
    /\ pc = "opt9_listed"
    /\ \E carrier_in \in Carriers, typed \in Typed :
          LET parsed == parse_numbers_csv(join_lines(typed))
          IN  /\ raw' = Some(join_lines(typed))
              /\ nums' = parsed.valid
              /\ invalid' = parsed.invalid
              /\ IF parsed.valid # <<>>
                 THEN \E lookup \in ClientResps,
                         resps \in [1..Len(parsed.valid) -> PostResps] :
                         LET o == add_numbers_to_client(lookup, identifier[1],
                                     parsed.valid, carrier_or_default(carrier_in),
                                     TRUE, resps)
                         IN  /\ Ran("9", identifier, <<answers[1], carrier_in>>,
                                    [o EXCEPT !.msgs = invalid_report(parsed) \o @], "ran")
                             /\ last_client' = IF o.raised THEN last_client ELSE identifier
                 ELSE /\ Ran("9", identifier, <<answers[1], carrier_in>>,
                             Outcome(<<>>, invalid_report(parsed)
                                           \o <<"No valid numbers provided.">>, None),
                             "ran")
                      /\ last_client' = last_client

\* choice == "r"
ChoiceR(ReloadResps) ==
    /\ pc = "menu"
    /\ \E resp1 \in ReloadResps, resp2 \in ReloadResps :
          Ran("r", None, <<>>, reload_all(resp1, resp2), "ran")
    /\ UNCHANGED << last_client, raw, nums, invalid >>

\* choice == "q": create_client_interactive, `if not username: continue`,
\* `last_client = username`
ChoiceQ(Names, Passwords, Types, Addresses, Limits, Resps) ==
    /\ pc = "menu"
    /\ \E username_in \in Names, password_in \in Passwords, type_in \in Types,
          address_in \in Addresses, limit_in \in Limits, resp \in Resps :
          LET o == create_client_interactive(username_in, password_in, type_in,
                                             address_in, limit_in, resp)
          IN  /\ Ran("q", o.ret,
                     <<username_in, password_in, type_in, address_in, limit_in>>,
                     o, IF truthy(o.ret) THEN "q_created" ELSE "ran")
              /\ last_client' = IF truthy(o.ret) THEN o.ret ELSE last_client
    /\ UNCHANGED << raw, nums, invalid >>

\* choice == "q": list_carriers()
QuickList(CarrierResps) ==
    /\ pc = "q_created"
    /\ \E resp \in CarrierResps :
          Ran("q", identifier, <<>>, list_carriers(resp), "q_listed")
    /\ UNCHANGED << last_client, raw, nums, invalid >>

\* choice == "q": the carrier and number prompts, parse_numbers_csv and
\* add_numbers_to_client(username, nums, carrier=carrier)
QuickAdd(Carriers, Typed, ClientResps, PostResps) ==
    /\ pc = "q_listed"
    /\ \E carrier_in \in Carriers, typed \in Typed :
          LET parsed == parse_numbers_csv(strip(typed))
          IN  /\ raw' = Some(strip(typed))
              /\ nums' = parsed.valid
              /\ invalid' = parsed.invalid
              /\ IF parsed.valid # <<>>
                 THEN \E lookup \in ClientResps,
                         resps \in [1..Len(parsed.valid) -> PostResps] :
                         LET o == add_numbers_to_client(lookup, identifier[1],
                                     parsed.valid, carrier_or_default(carrier_in),
                                     TRUE, resps)
                         IN  Ran("q", identifier, <<carrier_in>>,
                                 [o EXCEPT !.msgs = invalid_report(parsed) \o @],
                                 "q_added")
                 ELSE Ran("q", identifier, <<carrier_in>>,
                          Outcome(<<>>, invalid_report(parsed)
                                        \o <<"No numbers provided; skipping.">>, None),
                          "q_added")
    /\ UNCHANGED last_client

\* choice == "q": `if input("Reload all? [Y/n]: ").strip().lower() != "n"`
QuickReload(Confirms, ReloadResps) ==
    /\ pc = "q_added"
    /\ \E answer \in Confirms :
          IF lower(strip(answer)) # <<"n">>
          THEN \E resp1 \in ReloadResps, resp2 \in ReloadResps :
                  Ran("q", identifier, <<answer>>, reload_all(resp1, resp2), "ran")
          ELSE Ran("q", identifier, <<answer>>, Outcome(<<>>, <<>>, None), "ran")
    /\ UNCHANGED << last_client, raw, nums, invalid >>

\* choice == "0"
Choice0 ==
    /\ pc = "menu"
    /\ Ran("0", None, <<>>, Outcome(<<>>, <<"Bye!">>, None), "exited")
    /\ UNCHANGED << last_client, raw, nums, invalid >>

\* any other selection
ChoiceInvalid ==
    /\ pc = "menu"
    /\ Ran("other", None, <<>>, Outcome(<<>>, <<"Invalid choice.">>, None), "ran")
    /\ UNCHANGED << last_client, raw, nums, invalid >>

\* The end of an iteration: back to `while True:`; only last_client
\* survives it.
LoopBack ==
    /\ pc = "ran"
    /\ pc' = "menu"
    /\ choice' = ""
    /\ identifier' = None
    /\ answers' = <<>>
    /\ Install(Outcome(<<>>, <<>>, None))
    /\ raw' = None
    /\ nums' = <<>>
    /\ invalid' = <<>>
    /\ UNCHANGED last_client

(***************************************************************************)
(* What the operator types and what the gateway answers.                   *)
(***************************************************************************)
Ten0 == << "2", "0", "2", "5", "5", "5", "0", "1", "0", "0" >>

\* "12025550100" and "12025550101"
N0 == <<"1">> \o Ten0
N1 == << "1", "2", "0", "2", "5", "5", "5", "0", "1", "0", "1" >>

\* "(202) 555-0101"
Punctuated1 ==
    << "(", "2", "0", "2", ")", " ", "5", "5", "5", "-", "0", "1", "0", "1" >>

\* " 555", "120255501000" (12 digits) and "abc"
Short == << " ", "5", "5", "5" >>
Twelve == N0 \o <<"0">>
Letters == << "a", "b", "c" >>

\* Answers to an identifier prompt: blank, usernames, ids, and U+00B2
Idents == { <<>>, <<"a">>, <<"2">>, <<"z">>, <<SUP2>> }

GatewayClients ==
    << [id |-> 1, username |-> <<"a">>, numbers |-> <<N0>>],
       [id |-> 2, username |-> <<"b">>, numbers |-> <<>>] >>

ClientResps ==
    { Fault, Http(200, GatewayClients), Http(203, GatewayClients), Http(500, <<>>) }

CarrierResps ==
    { Fault, Http(200, <<Telnyx>>), Http(200, <<>>), Http(203, <<Telnyx>>),
      Http(500, <<>>) }

Names == { <<>>, <<" ">>, <<"c">> }
Passwords == { <<>>, <<"p">> }
Types == { <<>>, <<"1">>, <<"2">>, <<"x">> }
Addresses == { <<>>, <<" ">>, <<"h">> }
Limits == { <<>>, <<"5">>, <<"x">> }
Formats == { <<>>, <<"1">>, <<"2">>, <<"3">>, <<"4">>, <<"x">> }
Webhooks == { <<>>, <<" ">>, <<"u">> }
Ints == { <<>>, <<"0">>, <<"-", "1">>, <<"x">> }
Confirms == { <<>>, <<"y">>, <<"Y", " ">>, <<"n">>, <<"N">> }

\* Answers to "Confirm password change? [y/N]:"
PasswordConfirms == Confirms \cup { <<"y", "e", "s">>, <<" ", "y">> }
Carriers == { <<>>, <<"t", "w">> }

\* Answers to POST /carriers and to the PUT and PATCH
WriteResps == { Fault, Http(200, <<>>), Http(201, <<>>), Http(204, <<>>), Http(400, <<>>) }

\* Answers to POST /clients: on 2xx the body is Some(id), or None where it
\* holds no "id"
CreateResps == { Fault, Http(201, Some(2)), Http(200, None), Http(500, None) }

ReloadResps == { Fault, Http(200, <<>>), Http(500, <<>>) }

\* Error texts of a refused POST .../numbers
ExistsError ==
    << "N", "u", "m", "b", "e", "r", " ", "A", "l", "r", "e", "a", "d", "y", " ",
       "E", "x", "i", "s", "t", "s" >>
OtherError == << "b", "a", "d" >>

PostResps == { Fault, Http(201, <<>>), Http(409, ExistsError), Http(400, OtherError) }

\* What is typed at the numbers prompt of the menu
Typed == { <<>>, Short, Ten0 \o <<",">> \o N0, Punctuated1 \o <<",">> \o Short }

Next ==
    \/ Choice1(CarrierResps)
    \/ Choice2(Names, Types, Limits, WriteResps)
    \/ Choice3(ClientResps)
    \/ Choice4(Idents, ClientResps)
    \/ Choice5(Names, Passwords, Types, Addresses, Limits, CreateResps)
    \/ Choice6(Idents, ClientResps, Formats, Webhooks, Ints, WriteResps)
    \/ Choice7(Idents, ClientResps, Passwords, PasswordConfirms, WriteResps)
    \/ Choice8(Idents, ClientResps)
    \/ Choice9(Idents, CarrierResps)
    \/ Choice9Add(Carriers, Typed, ClientResps, PostResps)
    \/ ChoiceR(ReloadResps)
    \/ ChoiceQ(Names, Passwords, Types, Addresses, Limits, CreateResps)
    \/ QuickList(CarrierResps)
    \/ QuickAdd(Carriers, Typed, ClientResps, PostResps)
    \/ QuickReload(Confirms, ReloadResps)
    \/ Choice0
    \/ ChoiceInvalid
    \/ LoopBack

\* The shell, over every menu selection.
Spec == Init /\ [][Next]_vars

(***************************************************************************)
(* parse_numbers_csv applied to raw blocks.                                *)
(***************************************************************************)
MaxFragments == 3

\* What one field of a raw block may hold
Pieces == { Ten0, N0, Punctuated1, Short, Twelve, Letters, <<>>, <<" ">> }

\* k pieces with a separator of Seps between neighbours
RECURSIVE Joined(_, _, _)
Joined(P, Seps, k) ==
    IF k = 1 THEN P
    ELSE { r \o <<sep>> \o p : r \in Joined(P, Seps, k - 1), sep \in Seps, p \in P }

Blocks(P, Seps, max) == UNION { Joined(P, Seps, k) : k \in 1..max }

RawInputs == Blocks(Pieces, {",", "\n"}, MaxFragments)

\* A caller holds a raw block, pc = "call"
InitParse ==
    /\ pc = "call"
    /\ raw \in { Some(r) : r \in RawInputs }
    /\ last_client = None
    /\ choice = ""
    /\ identifier = None
    /\ answers = <<>>
    /\ log = <<>>
    /\ msgs = <<>>
    /\ ret = None
    /\ clients = None
    /\ client = None
    /\ tally = None
    /\ settings = None
    /\ nums = <<>>
    /\ invalid = <<>>

\* nums = parse_numbers_csv(raw)
ParseCall ==
    /\ pc = "call"
    /\ LET parsed == parse_numbers_csv(raw[1])
       IN  /\ nums' = parsed.valid
           /\ invalid' = parsed.invalid
           /\ msgs' = invalid_report(parsed)
    /\ pc' = "returned"
    /\ UNCHANGED << last_client, choice, identifier, answers, log, ret, clients,
                    client, tally, settings, raw >>

SpecParse == InitParse /\ [][ParseCall]_vars

(***************************************************************************)
(* What the claims about parsing are stated with: the fragments of a raw   *)
(* block, defined by positions rather than by the code's passes.           *)
(***************************************************************************)
Separators == {",", "\n"}

\* Positions of the separators, with the two ends of the block
Cuts(block) == {0, Len(block) + 1} \cup {i \in 1..Len(block) : block[i] \in Separators}

\* The fields: the stretches between two neighbouring cuts, by their cuts
FieldCuts(block) ==
    { c \in Cuts(block) \X Cuts(block) :
         /\ c[1] < c[2]
         /\ ~\E m \in Cuts(block) : c[1] < m /\ m < c[2] }

\* The non-blank part of a field: from its first to its last non-blank
Trimmed(block, c) ==
    LET inside == {i \in (c[1] + 1)..(c[2] - 1) : block[i] \notin Whitespace}
    IN  IF inside = {} THEN <<>>
        ELSE SubSeq(block, Min(inside), CHOOSE x \in inside : \A y \in inside : y <= x)

\* The fragments, in input order: the trimmed non-blank fields
FragmentCuts(block) == { c \in FieldCuts(block) : Trimmed(block, c) # <<>> }

Fragments(block) ==
    LET F == FragmentCuts(block)
    IN  [k \in 1..Cardinality(F) |->
            Trimmed(block, CHOOSE c \in F : Cardinality({d \in F : d[1] < c[1]}) = k - 1)]

\* The digits of a fragment, in order
DigitsOf(f) ==
    LET P == {i \in 1..Len(f) : f[i] \in DecimalDigits}
    IN  [k \in 1..Cardinality(P) |->
            f[CHOOSE i \in P : Cardinality({j \in P : j < i}) = k - 1]]

\* The fragments kept, and those rejected, by their positions among the fragments
KeptAt(frs) == {k \in 1..Len(frs) : Len(DigitsOf(frs[k])) \in {10, 11}}

\* The elements of seq at the positions of K, in order
Pick(seq, K) ==
    [n \in 1..Cardinality(K) |->
        seq[CHOOSE k \in K : Cardinality({j \in K : j < k}) = n - 1]]

ElevenDigits(d) == IF Len(d) = 10 THEN <<"1">> \o d ELSE d

\* C4: parse_numbers_csv is order-preserving and partition-complete: every
\* fragment of the raw block (split on commas and newlines, trimmed, blank
\* ones dropped) lands in exactly one of valid and invalid, the two lengths
\* add up to the fragment count, each list keeps the input order, and a
\* repeated fragment stays repeated.
C4_PartitionComplete ==
    pc = "returned" =>
        LET frs == Fragments(raw[1])
            K == KeptAt(frs)
            kept == Pick(frs, K)
        IN  /\ Len(nums) + Len(invalid) = Len(frs)
            /\ Len(nums) = Cardinality(K)
            /\ \A n \in 1..Len(nums) : nums[n] = ElevenDigits(DigitsOf(kept[n]))
            /\ invalid = Pick(frs, (1..Len(frs)) \ K)

\* A block with a valid fragment, a rejected one and the valid one again.
C4_Witness ==
    /\ pc = "returned"
    /\ Len(nums) = 2
    /\ nums[1] = nums[2]
    /\ Len(invalid) = 1
    /\ Len(Fragments(raw[1])) = 3
    /\ 2 \notin KeptAt(Fragments(raw[1]))

(***************************************************************************)
(* Options 9 and q over what can be typed at the numbers prompt.           *)
(***************************************************************************)
MaxTyped == 2

\* Option 9 reads lines until EOF; option q reads one line.
TypedLines == Blocks(Pieces, {",", "\n"}, MaxTyped)
TypedLine == Blocks(Pieces, {","}, MaxTyped)

NextNumbers ==
    \/ Choice9({<<"a">>}, {Http(200, <<Telnyx>>)})
    \/ Choice9Add({<<>>}, TypedLines, {Fault, Http(200, GatewayClients)},
                  {Http(201, <<>>), Http(400, OtherError)})
    \/ ChoiceQ({<<"c">>}, {<<>>}, {<<"2">>}, {<<>>}, {<<>>},
               {Http(201, Some(2)), Http(500, None)})
    \/ QuickList({Http(200, <<Telnyx>>)})
    \/ QuickAdd({<<>>}, TypedLine, {Fault, Http(200, GatewayClients)},
                {Http(201, <<>>), Http(400, OtherError)})
    \/ QuickReload({<<>>, <<"n">>}, {Http(200, <<>>)})
    \/ LoopBack

SpecNumbers == Init /\ [][NextNumbers]_vars

\* The numbers POSTed to a client's numbers sub-resource, in request order
PostedNumbers ==
    LET P == {i \in 1..Len(log) : log[i].path = "/clients/{id}/numbers"}
    IN  [n \in 1..Cardinality(P) |->
            log[CHOOSE i \in P : Cardinality({j \in P : j < i}) = n - 1].body.number]

InSeq(x, seq) == \E k \in 1..Len(seq) : seq[k] = x

\* C2: for every fragment given to parse_numbers_csv, with d its digits: 10
\* digits give "1" + d in the output, 11 digits give d, any other count
\* rejects the fragment; so every number options 9 and q POST has exactly 11
\* digits and no rejected fragment is submitted.
C2_Normalized ==
    raw # None =>
        LET frs == Fragments(raw[1])
        IN  /\ \A k \in 1..Len(frs) :
                  LET d == DigitsOf(frs[k])
                  IN  /\ Len(d) = 10 => InSeq(<<"1">> \o d, nums)
                      /\ Len(d) = 11 => InSeq(d, nums)
                      /\ Len(d) \notin {10, 11} => InSeq(frs[k], invalid)
            /\ Len(nums) = Cardinality(KeptAt(frs))
            /\ \A n \in 1..Len(PostedNumbers) :
                  LET num == PostedNumbers[n]
                  IN  /\ Len(num) = 11
                      /\ \A i \in 1..Len(num) : num[i] \in DecimalDigits
                      /\ InSeq(num, nums)
                      /\ ~InSeq(num, invalid)

\* Option 9 given "(202) 555-0101" and a rejected entry: 12025550101 is
\* POSTed.
C2_Witness ==
    /\ pc = "ran"
    /\ choice = "9"
    /\ invalid # <<>>
    /\ \E k \in 1..Len(Fragments(raw[1])) : Fragments(raw[1])[k] = Punctuated1
    /\ PostedNumbers = <<N1>>

(***************************************************************************)
(* add_numbers_to_client over candidate lists, snapshots and answers.      *)
(***************************************************************************)
MaxCandidates == 3

\* Typed lists that parse to candidate lists over 12025550100 and 12025550101
CandidateTyped == Blocks({Ten0, N1}, {","}, MaxCandidates)

\* The numbers client "a" holds when it is looked up
Snapshots == { <<>>, <<N0>>, <<N1, N0>> }

ClientRespsAdd ==
    { Http(200, <<[id |-> 1, username |-> <<"a">>, numbers |-> held]>>) :
         held \in Snapshots }
    \cup { Http(200, <<>>), Fault }

NextAdd ==
    \/ Choice9({<<"a">>}, {Http(200, <<Telnyx>>)})
    \/ Choice9Add({<<>>}, CandidateTyped, ClientRespsAdd, PostResps)
    \/ LoopBack

SpecAdd == Init /\ [][NextAdd]_vars

\* Every POST to the numbers sub-resource was answered, with a 2xx status
AllPostsAnswered2xx ==
    \A i \in 1..Len(log) :
        log[i].path = "/clients/{id}/numbers" =>
            ~log[i].fault /\ 200 <= log[i].status /\ log[i].status < 300

\* The candidates that are the first occurrence of a number the snapshot
\* does not hold, by position
FirstNew(candidates, snapshot) ==
    { k \in 1..Len(candidates) :
         /\ ~InSeq(candidates[k], snapshot)
         /\ \A j \in 1..(k - 1) : candidates[j] # candidates[k] }

\* C1: in one add_numbers_to_client call with skip-existing on, when every
\* POST is answered 2xx: exactly one POST per distinct candidate that is
\* not in the initial snapshot, every later occurrence and every candidate
\* of the snapshot skipped without a request, failed = 0 and
\* added + skipped + failed = number of candidates.
C1_DuplicateSuppression ==
    (tally # None /\ AllPostsAnswered2xx) =>
        LET new == FirstNew(nums, client[1].numbers)
        IN  /\ PostedNumbers = Pick(nums, new)
            /\ tally[1].added = Cardinality(new)
            /\ tally[1].skipped = Len(nums) - Cardinality(new)
            /\ tally[1].failed = 0
            /\ tally[1].added + tally[1].skipped + tally[1].failed = Len(nums)

\* [N, N] on a client with no numbers: added=1, skipped=1, failed=0.
C1_Witness ==
    /\ pc = "ran"
    /\ nums = <<N0, N0>>
    /\ client # None
    /\ client[1].numbers = <<>>
    /\ tally = Some([added |-> 1, skipped |-> 1, failed |-> 0])
    /\ PostedNumbers = <<N0>>

(***************************************************************************)
(* add_numbers_to_client over every sequence of answers to its POSTs.      *)
(***************************************************************************)
\* "ALREADY EXISTS"
ExistsErrorUpper ==
    << "A", "L", "R", "E", "A", "D", "Y", " ", "E", "X", "I", "S", "T", "S" >>

\* Answers to POST .../numbers: a fault, 2xx with and without the words in
\* the body, refusals that say "already exists" in two letter cases, and a
\* refusal that does not
PostRespsTally ==
    { Fault, Http(201, <<>>), Http(200, ExistsError), Http(409, ExistsError),
      Http(500, ExistsErrorUpper), Http(400, OtherError) }

ClientRespsTally ==
    { Http(200, <<[id |-> 1, username |-> <<"a">>, numbers |-> held]>>) :
         held \in { <<>>, <<N0>> } }

NextTally ==
    \/ Choice9({<<"a">>}, {Http(200, <<Telnyx>>)})
    \/ Choice9Add({<<>>}, CandidateTyped, ClientRespsTally, PostRespsTally)
    \/ LoopBack

SpecTally == Init /\ [][NextTally]_vars

\* The line printed for each candidate, in candidate order: the lines
\* before "Done"
CandidateLines == SubSeq(msgs, Len(msgs) - Len(nums), Len(msgs) - 1)

\* The POSTs to the numbers sub-resource, in the order sent
NumberPosts == SelectSeq(log, LAMBDA r : r.path = "/clients/{id}/numbers")

\* The candidates a POST was sent for, and the POST of candidate k
PostedCandidates ==
    { k \in 1..Len(nums) : CandidateLines[k] # "already exists, skipping" }

PostOf(k) == NumberPosts[Cardinality({m \in PostedCandidates : m <= k})]

\* The text holds "already exists" in some letter case, by positions
MentionsAlreadyExists(text) ==
    \E i \in 0..(Len(text) - Len(AlreadyExistsText)) :
        \A k \in 1..Len(AlreadyExistsText) :
            \/ text[i + k] = AlreadyExistsText[k]
            \/ \E u \in 1..Len(UpperCase) :
                  /\ text[i + k] = UpperCase[u]
                  /\ LowerCase[u] = AlreadyExistsText[k]

\* The outcome the answer to a POST decides
OutcomeOf(req) ==
    IF req.fault THEN "network error"
    ELSE IF 200 <= req.status /\ req.status < 300 THEN "added"
    ELSE IF MentionsAlreadyExists(req.text) THEN "already exists"
    ELSE "failed"

CountLines(kinds) == Cardinality({k \in 1..Len(nums) : CandidateLines[k] \in kinds})

\* C13: in add_numbers_to_client each candidate gets exactly one of the
\* outcomes added, skipped, failed: a non-2xx answer whose error message
\* holds "already exists" in any letter case counts as skipped, never as
\* failed; any other non-2xx answer and any network fault counts as failed;
\* after a failed or server-skipped candidate the loop goes on with the
\* next one, so added + skipped + failed is the number of candidates for
\* every sequence of answers.
C13_OneOutcomePerCandidate ==
    tally # None =>
        /\ Len(msgs) > Len(nums)
        /\ msgs[Len(msgs)] = "Done"
        /\ Len(NumberPosts) = Cardinality(PostedCandidates)
        /\ \A k \in PostedCandidates :
              /\ PostOf(k).body.number = nums[k]
              /\ CandidateLines[k] = OutcomeOf(PostOf(k))
        /\ tally[1].added = CountLines({"added"})
        /\ tally[1].skipped = CountLines({"already exists, skipping", "already exists"})
        /\ tally[1].failed = CountLines({"network error", "failed"})
        /\ tally[1].added + tally[1].skipped + tally[1].failed = Len(nums)

\* Three candidates on a client with no numbers: a fault, then a 409
\* "Number Already Exists", then a 201: one failed, one skipped, one added.
C13_Witness ==
    /\ pc = "ran"
    /\ nums = <<N0, N1, N0>>
    /\ tally = Some([added |-> 1, skipped |-> 1, failed |-> 1])
    /\ Len(NumberPosts) = 3
    /\ NumberPosts[1].fault
    /\ NumberPosts[2].status = 409 /\ NumberPosts[2].text = ExistsError
    /\ NumberPosts[3].status = 201
    /\ CandidateLines = <<"network error", "already exists", "added">>

(***************************************************************************)
(* get_client_by_identifier over client lists: options 4 and 8.            *)
(***************************************************************************)
MaxClients == 3

\* Identifiers typed: ids, usernames, "02", and U+00B2
IdentsLookup == { <<"2">>, <<"b">>, <<"9">>, <<"z">>, <<"0", "2">>, <<SUP2>> }

\* Clients of GET /clients: a username may read like an id
ClientUniverse ==
    [id : {1, 2, 3}, username : { <<"a">>, <<"b">>, <<"2">> }, numbers : { <<N0>> }]

ClientLists == UNION { [1..k -> ClientUniverse] : k \in 0..MaxClients }

ClientRespsLookup ==
    { Http(200, list) : list \in ClientLists }
    \cup { Fault, Http(203, GatewayClients), Http(500, <<>>) }

NextLookup ==
    \/ Choice4(IdentsLookup, ClientRespsLookup)
    \/ Choice8(IdentsLookup, ClientRespsLookup)
    \/ LoopBack

SpecLookup == Init /\ [][NextLookup]_vars

\* The client the lookup is to return: the first id match for an identifier
\* of decimal digits only, else the first username match, else None
ExpectedClient(list, ident) ==
    LET decimal == ident # <<>> /\ \A i \in 1..Len(ident) : ident[i] \in DecimalDigits
        by_id == IF decimal
                 THEN {i \in 1..Len(list) : list[i].id = int(ident)}
                 ELSE {}
        by_username == {i \in 1..Len(list) : list[i].username = ident}
    IN  IF by_id # {} THEN Some(list[Min(by_id)])
        ELSE IF by_username # {} THEN Some(list[Min(by_username)])
        ELSE None

\* C3: get_client_by_identifier over any client list returns the client
\* whose id equals int(identifier) for an all-digit identifier (even when a
\* username equals the identifier), otherwise the first client whose
\* username equals the identifier, and not-found (None) when neither
\* matches, never an error.
C3_LookupNeverRaises ==
    (choice = "4" /\ clients # None) =>
        /\ pc # "crashed"
        /\ client = ExpectedClient(clients[1], identifier[1])

\* List numbers was given an all-digit argument that is the id of a client
\* of the list and the username of none
IdOnlyArgument ==
    /\ choice = "8"
    /\ clients # None
    /\ identifier[1] # <<>>
    /\ \A i \in 1..Len(identifier[1]) : identifier[1][i] \in DecimalDigits
    /\ \E i \in 1..Len(clients[1]) : clients[1][i].id = int(identifier[1])
    /\ \A i \in 1..Len(clients[1]) : clients[1][i].username # identifier[1]

Blank(text) == \A i \in 1..Len(text) : text[i] \in Whitespace

\* An answer with its leading and trailing blanks cut, by positions
Cut(text) == Trimmed(text, <<0, Len(text) + 1>>)

\* The requests of the log with the given method
Sent(method) == SelectSeq(log, LAMBDA r : r.method = method)

\* create_client_interactive just ran (option 5, or the first step of q)
ClientCreationRan == choice \in {"5", "q"} /\ Len(answers) = 5

\* C5: an interactive create whose required field is blank refuses locally
\* and issues no HTTP request: create_carrier_interactive with a blank
\* name, create_client_interactive with a blank username, and
\* create_client_interactive of type legacy with a blank address return no
\* identifier, whatever the other answers.
C5_BlankRefusedLocally ==
    /\ (choice = "2" /\ Blank(answers[1])) => (log = <<>> /\ ret = None)
    /\ (ClientCreationRan /\ Blank(answers[1])) =>
          (log = <<>> /\ ret = None /\ pc = "ran")
    /\ (ClientCreationRan /\ Cut(answers[3]) # <<"2">> /\ Blank(answers[4])) =>
          (log = <<>> /\ ret = None /\ pc = "ran")

\* A legacy client with a username, a typed password and no address.
C5_Witness ==
    /\ choice = "5"
    /\ pc = "ran"
    /\ answers = << <<"c">>, <<"p">>, <<"1">>, <<" ">>, <<"5">> >>
    /\ log = <<>>
    /\ msgs = <<"Address is required for legacy clients">>

\* An answer that reads as an integer: an optional sign and decimal digits
IntegerText(text) ==
    LET t == Cut(text)
        d == IF t # <<>> /\ t[1] \in {"+", "-"} THEN SubSeq(t, 2, Len(t)) ELSE t
    IN  d # <<>> /\ \A i \in 1..Len(d) : d[i] \in DecimalDigits

\* update_client_settings asked its four prompts: the client was found
SettingsAsked == choice = "6" /\ client # None /\ Len(answers) = 5

\* C6: update_client_settings sends a PUT to the settings sub-resource only
\* when at least one field was set, and the payload holds exactly the
\* fields set: a format choice outside {1,2,3}, a blank webhook and blank
\* or non-integer retries/timeout contribute none; when nothing is set no
\* PUT is sent and "No settings to update." is reported.
C6_SettingsPayload ==
    /\ choice = "6" => Len(Sent("PUT")) <= 1
    /\ (choice = "6" /\ client = None) => Sent("PUT") = <<>>
    /\ SettingsAsked =>
          LET format_set == Cut(answers[2]) \in { <<"1">>, <<"2">>, <<"3">> }
              webhook_set == ~Blank(answers[3])
              retries_set == IntegerText(answers[4])
              timeout_set == IntegerText(answers[5])
              any == format_set \/ webhook_set \/ retries_set \/ timeout_set
          IN  /\ (Sent("PUT") # <<>>) <=> any
              /\ ~any => msgs[Len(msgs)] = "No settings to update."
              /\ any =>
                    LET put == Sent("PUT")[1]
                    IN  /\ put.path = "/clients/{id}/settings"
                        /\ put.cid = client[1].id
                        /\ (put.body.api_format # None) <=> format_set
                        /\ (put.body.default_webhook # None) <=> webhook_set
                        /\ (put.body.webhook_retries # None) <=> retries_set
                        /\ (put.body.webhook_timeout_secs # None) <=> timeout_set
                        /\ webhook_set => put.body.default_webhook = Some(Cut(answers[3]))
                        /\ retries_set => put.body.webhook_retries = Some(int(answers[4]))
                        /\ timeout_set => put.body.webhook_timeout_secs = Some(int(answers[5]))

\* Format "4", a blank webhook, retries "0" and timeout "x": the PUT carries
\* webhook_retries = 0 alone.
C6_Witness ==
    /\ SettingsAsked
    /\ answers[2] = <<"4">>
    /\ answers[3] = <<" ">>
    /\ answers[4] = <<"0">>
    /\ answers[5] = <<"x">>
    /\ Len(Sent("PUT")) = 1
    /\ Sent("PUT")[1].body =
          [api_format |-> None, default_webhook |-> None,
           webhook_retries |-> Some(0), webhook_timeout_secs |-> None]

\* C7: every operation treats every 2xx status as success and every other
\* status as an application-level failure, the reads (list carriers, list
\* clients, client lookup) exactly as the writes.
C7_Every2xxIsSuccess ==
    \A i \in 1..Len(log) :
        ~log[i].fault => (log[i].ok <=> (200 <= log[i].status /\ log[i].status < 300))

\* C8: the shell's last-client holds the identifier of the most recently
\* touched client: after each operation that was given or produced a client
\* identifier (options 4 to 9 and q) last-client equals that identifier,
\* and a blank identifier prompt in options 4, 6, 7, 8 and 9 uses the
\* current last-client.
C8_LastClientIsMostRecent ==
    /\ (pc = "ran" /\ choice \in {"4", "5", "6", "7", "8", "9", "q"} /\ truthy(identifier))
          => last_client = identifier
    /\ (choice \in {"4", "6", "7", "8", "9"} /\ Blank(answers[1]))
          => identifier = last_client

\* reload_all ran: option r, or the last step of q unless answered "n"
ReloadAllRan ==
    \/ choice = "r"
    \/ choice = "q" /\ pc = "ran" /\ Len(answers) = 1 /\ lower(Cut(answers[1])) # <<"n">>

\* The line reload_all prints for a request, by its result
ReloadReport(req, done_msg, failed_msg) ==
    IF req.fault THEN "Network error"
    ELSE IF 200 <= req.status /\ req.status < 300 THEN done_msg
    ELSE failed_msg

\* C9: reload_all always issues both requests in order, POST /clients/reload
\* then POST /carriers/reload, and reports one outcome for each: whatever the
\* first request's result the second is still sent and the flow completes.
C9_ReloadAllSendsBoth ==
    ReloadAllRan =>
        /\ pc = "ran"
        /\ Len(log) = 2
        /\ log[1].method = "POST" /\ log[1].path = "/clients/reload"
        /\ log[2].method = "POST" /\ log[2].path = "/carriers/reload"
        /\ msgs = << ReloadReport(log[1], "Clients reloaded.", "Client reload failed"),
                     ReloadReport(log[2], "Carriers reloaded.", "Carrier reload failed") >>

\* The client reload meets a network fault and the carrier reload is
\* answered 500.
C9_Witness ==
    /\ choice = "r"
    /\ Len(log) = 2
    /\ log[1].fault
    /\ ~log[2].fault /\ log[2].status = 500
    /\ msgs = <<"Network error", "Carrier reload failed">>

\* C10: a network-layer fault on any request of any operation never
\* terminates the shell: the operation reports it and returns to the menu
\* loop, which goes on with last-client unchanged by the failed operation.
C10_FaultLeavesLastClient ==
    [][(\E i \in 1..Len(log') : log'[i].fault) =>
          /\ pc' \notin {"crashed", "exited"}
          /\ Len(msgs') > 0
          /\ last_client' = last_client]_vars

\* The confirmation typed in option 7 is "y" once trimmed and lowercased
PasswordConfirmed ==
    /\ Len(answers) = 3
    /\ Cut(answers[3]) \in { <<"y">>, <<"Y">> }

\* C12: change_client_password sends the PATCH to the client's password
\* sub-resource only after the client was found and the confirmation
\* answer, trimmed and lowercased, is exactly "y"; for any other answer
\* (blank included) it reports "Cancelled." and sends no PATCH, whether the
\* password was typed or auto-generated.
C12_PatchOnlyOnConfirm ==
    choice = "7" =>
        /\ Len(Sent("PATCH")) <= 1
        /\ \A i \in 1..Len(log) :
              log[i].method = "PATCH" =>
                 /\ i = Len(log)
                 /\ client # None
                 /\ PasswordConfirmed
                 /\ log[i].path = "/clients/{id}/password"
                 /\ log[i].cid = client[1].id
        /\ (client # None /\ ~PasswordConfirmed) =>
              /\ Sent("PATCH") = <<>>
              /\ msgs[Len(msgs)] = "Cancelled."
        /\ (client # None /\ PasswordConfirmed) =>
              /\ Len(Sent("PATCH")) = 1
              /\ \A i \in 1..Len(msgs) : msgs[i] # "Cancelled."

\* Client "a" found, the password left blank and so generated, the
\* confirmation left blank: "Cancelled." and nothing but the lookup sent.
C12_Witness ==
    /\ pc = "ran"
    /\ choice = "7"
    /\ client # None
    /\ answers = << <<"a">>, <<>>, <<>> >>
    /\ msgs = <<"Generated password", "Cancelled.">>
    /\ Len(log) = 1
    /\ log[1].method = "GET"

\* C14: last-client is only ever assigned the identifier of a client the
\* gateway confirmed: it changes only after a client creation that was
\* answered 2xx or after an operation whose lookup found the client; a
\* failed creation and a lookup that returned not-found (add numbers,
\* option 9, on an unknown identifier with a valid number list included)
\* leave it unchanged.
C14_LastClientOnlyConfirmed ==
    [][last_client' # last_client =>
          \/ /\ choice' \in {"5", "q"}
             /\ \E i \in 1..Len(log') :
                   /\ log'[i].method = "POST" /\ log'[i].path = "/clients"
                   /\ ~log'[i].fault
                   /\ 200 <= log'[i].status /\ log'[i].status < 300
          \/ /\ choice' \in {"4", "6", "7", "8", "9"}
             /\ client' # None
             /\ last_client' = identifier']_vars

====
